---------------------------- MODULE Spec2Model ----------------------------
(***************************************************************************)
(* State-machine model of dashboard.py: the GHCN download and aggregation  *)
(* (get_weather_data), the start-up script that caches one table per       *)
(* station and builds the widgets, and the update_plot callback.           *)
(*                                                                         *)
(* Temperatures are exact rationals <<numerator, denominator>> in lowest   *)
(* terms; <<0, 0>> stands for pandas' NaN (an absent value).               *)
(***************************************************************************)
EXTENDS Integers, Sequences, FiniteSets, TLC

(* Number of entries of STATION_DATA (in source order) that the model runs. *)
MaxStations == 2

(* Largest number of feed rows of a station in SpecPrepare. *)
MaxObs == 3

(***************************************************************************)
(* Exact arithmetic on the float columns.                                  *)
(***************************************************************************)
NaN == <<0, 0>>

IsNaN(x) == x[2] = 0

Abs(n) == IF n < 0 THEN -n ELSE n

RECURSIVE GCD(_, _)
GCD(a, b) == IF b = 0 THEN a ELSE GCD(b, a % b)

Norm(n, d) == LET g == GCD(Abs(n), d) IN <<n \div g, d \div g>>

RatAdd(a, b) == Norm(a[1] * b[2] + b[1] * a[2], a[2] * b[2])

RatLess(a, b) == a[1] * b[2] < b[1] * a[2]

(* df_temp['DATA_VALUE'] / 10.0 *)
ToDegrees(v) == Norm(v, 10)

(* Series.mean(): NaN entries are skipped, an all-NaN (or empty) group gives NaN. *)
RECURSIVE SumSeq(_)
SumSeq(s) == IF s = <<>> THEN <<0, 1>> ELSE RatAdd(Head(s), SumSeq(Tail(s)))

SkipNaN(s) == SelectSeq(s, LAMBDA x : ~IsNaN(x))

Mean(s) ==
    LET v == SkipNaN(s)
    IN  IF v = <<>> THEN NaN
        ELSE LET t == SumSeq(v) IN Norm(t[1], t[2] * Len(v))

(* Series.max() / Series.min(): NaN entries are skipped. *)
RECURSIVE MaxSeq(_)
MaxSeq(s) ==
    IF Len(s) = 1 THEN Head(s)
    ELSE LET m == MaxSeq(Tail(s)) IN IF RatLess(m, Head(s)) THEN Head(s) ELSE m

RECURSIVE MinSeq(_)
MinSeq(s) ==
    IF Len(s) = 1 THEN Head(s)
    ELSE LET m == MinSeq(Tail(s)) IN IF RatLess(Head(s), m) THEN Head(s) ELSE m

Max(s) == LET v == SkipNaN(s) IN IF v = <<>> THEN NaN ELSE MaxSeq(v)

Min(s) == LET v == SkipNaN(s) IN IF v = <<>> THEN NaN ELSE MinSeq(v)

(***************************************************************************)
(* DatetimeIndex.year / DatetimeIndex.dayofyear of a DATE.                 *)
(***************************************************************************)
IsLeap(y) == (y % 4 = 0 /\ y % 100 # 0) \/ y % 400 = 0

DaysInMonth(y, m) ==
    IF m = 2 THEN (IF IsLeap(y) THEN 29 ELSE 28)
    ELSE IF m \in {4, 6, 9, 11} THEN 30 ELSE 31

RECURSIVE DaysBefore(_, _)
DaysBefore(y, m) == IF m = 1 THEN 0 ELSE DaysBefore(y, m - 1) + DaysInMonth(y, m - 1)

DayOfYear(date) == DaysBefore(date.year, date.month) + date.day

YearOf(date) == date.year

(***************************************************************************)
(* The external feed: what the by_station CSV of a station holds.  A feed  *)
(* is [ok, rows]: ok = FALSE when pd.read_csv raises; rows are the CSV     *)
(* rows [DATE, ELEMENT, DATA_VALUE] (DATA_VALUE in tenths of a degree).    *)
(* GHCN-Daily holds at most one row per (DATE, ELEMENT).                   *)
(***************************************************************************)
Date(y, m, d) == [year |-> y, month |-> m, day |-> d]

Obs(date, el, v) == [DATE |-> date, ELEMENT |-> el, DATA_VALUE |-> v]

DownloadError == [ok |-> FALSE, rows |-> {}]

Csv(rows) == [ok |-> TRUE, rows |-> rows]

UniqueKeys(rows) ==
    \A a, b \in rows : (a.DATE = b.DATE /\ a.ELEMENT = b.ELEMENT) => a = b

(***************************************************************************)
(* STATION_DATA, in source order: <<city, station id>>.                    *)
(***************************************************************************)
STATION_DATA ==
    << <<"Chicago, IL", "USW00094846">>,
       <<"New York, NY", "USW00094728">>,
       <<"Los Angeles, CA", "USW00093134">>,
       <<"Miami, FL", "USW00012839">>,
       <<"Denver, CO", "USW00023062">> >>

Stations == SubSeq(STATION_DATA, 1, MaxStations)

Cities == {Stations[i][1] : i \in 1 .. Len(Stations)}

StationIds == {Stations[i][2] : i \in 1 .. Len(Stations)}

StationId(city) == Stations[CHOOSE i \in 1 .. Len(Stations) : Stations[i][1] = city][2]

VARIABLES
    feeds,          \* station id -> the feed its URL serves (line 34)
    pc,             \* "fetch" | "serving" | "crashed"
    all_data,       \* city -> table, the cities fetched so far (line 103)
    requests,       \* station id -> number of downloads made (line 39)
    stdout,         \* the diagnostics printed (lines 48, 111)
    valid_cities,   \* city -> non-empty table (line 106)
    cities,         \* sorted names of valid_cities (line 107)
    years,          \* sorted years of the first city (line 115)
    city_select,    \* Select widget: [options, value] (line 118)
    year_select,    \* Select widget: [options, value] (line 119)
    source,         \* ColumnDataSource.data: the rows plotted (line 127)
    title,          \* p.title.text (line 141)
    roots,          \* curdoc().roots (lines 112, 194)
    callbacks       \* widgets with update_plot attached to 'value' (lines 182-183)

vars == <<feeds, pc, all_data, requests, stdout, valid_cities, cities, years,
          city_select, year_select, source, title, roots, callbacks>>

(***************************************************************************)
(* get_weather_data, stage by stage.                                       *)
(***************************************************************************)
NormalStart == 1981
NormalEnd == 2010

RECURSIVE RowsToSeq(_)
RowsToSeq(S) ==
    IF S = {} THEN <<>>
    ELSE LET r == CHOOSE x \in S : TRUE IN <<r>> \o RowsToSeq(S \ {r})

KeyLess(a, b) ==
    a.year < b.year \/ (a.year = b.year /\ a.day_of_year < b.day_of_year)

RECURSIVE SortedKeys(_)
SortedKeys(K) ==
    IF K = {} THEN <<>>
    ELSE LET m == CHOOSE k \in K : \A j \in K \ {k} : KeyLess(k, j)
         IN  <<m>> \o SortedKeys(K \ {m})

(* df[df['ELEMENT'].isin(['TMAX', 'TMIN'])] with DATA_VALUE / 10.0, day_of_year, year *)
TempRows(rows) ==
    { [ELEMENT     |-> r.ELEMENT,
       DATA_VALUE  |-> ToDegrees(r.DATA_VALUE),
       day_of_year |-> DayOfYear(r.DATE),
       year        |-> YearOf(r.DATE)] : r \in {x \in rows : x.ELEMENT \in {"TMAX", "TMIN"}} }

(* One cell of the pivot table: the mean (default aggfunc) of the group's values. *)
Cell(df_temp, k, el) ==
    LET grp == {r \in df_temp : r.year = k.year /\ r.day_of_year = k.day_of_year
                                /\ r.ELEMENT = el}
    IN  Mean([i \in 1 .. Cardinality(grp) |-> RowsToSeq(grp)[i].DATA_VALUE])

(* pivot_table(index=[year, day_of_year], columns=ELEMENT).reset_index():    *)
(* one row per (year, day_of_year) in key order; a column per ELEMENT seen.  *)
PivotColumns(df_temp) == {r.ELEMENT : r \in df_temp}

pivot_table(df_temp) ==
    LET keys == SortedKeys({[year |-> r.year, day_of_year |-> r.day_of_year] : r \in df_temp})
    IN  [i \in 1 .. Len(keys) |->
            [year        |-> keys[i].year,
             day_of_year |-> keys[i].day_of_year,
             TMAX        |-> Cell(df_temp, keys[i], "TMAX"),
             TMIN        |-> Cell(df_temp, keys[i], "TMIN")]]

(* Mutant: the window's first year left out. *)
InNormalPeriod_late_start(year) == year > NormalStart /\ year <= NormalEnd

(* df_pivot[(year >= 1981) & (year <= 2010)] *)
InNormalPeriod(year) == year >= NormalStart /\ year <= NormalEnd

Normals(df_pivot) == SelectSeq(df_pivot, LAMBDA r : InNormalPeriod(r.year))

Column(df, name) == [i \in 1 .. Len(df) |-> df[i][name]]

Group(df, d) == SelectSeq(df, LAMBDA r : r.day_of_year = d)

DaysOf(df) == {df[i].day_of_year : i \in 1 .. Len(df)}

(* normals.groupby('day_of_year').agg(mean, mean).rename(avg_max, avg_min) *)
normals_by_day(normals) ==
    [d \in DaysOf(normals) |->
        [avg_max |-> Mean(Column(Group(normals, d), "TMAX")),
         avg_min |-> Mean(Column(Group(normals, d), "TMIN"))]]

(* Mutant: the records taken over the 1981-2010 rows only. *)
records_by_day_normals(df_pivot) ==
    LET n == SelectSeq(df_pivot, LAMBDA r : r.year >= NormalStart /\ r.year <= NormalEnd)
    IN  [d \in {n[i].day_of_year : i \in 1 .. Len(n)} |->
            [record_max |-> Max(Column(SelectSeq(n, LAMBDA r : r.day_of_year = d), "TMAX")),
             record_min |-> Min(Column(SelectSeq(n, LAMBDA r : r.day_of_year = d), "TMIN"))]]

(* df_pivot.groupby('day_of_year').agg(max, min).rename(record_max, record_min) *)
records_by_day(df_pivot) ==
    [d \in DaysOf(df_pivot) |->
        [record_max |-> Max(Column(Group(df_pivot, d), "TMAX")),
         record_min |-> Min(Column(Group(df_pivot, d), "TMIN"))]]

(* left.merge(right, on='day_of_year'): how='inner', the left rows' order kept. *)
merge(left, right) ==
    LET kept == SelectSeq(left, LAMBDA r : r.day_of_year \in DOMAIN right)
    IN  [i \in 1 .. Len(kept) |-> kept[i] @@ right[kept[i].day_of_year]]

(* sort_values(['year', 'day_of_year']): a stable insertion sort. *)
RECURSIVE Insert(_, _)
Insert(r, s) ==
    IF s = <<>> THEN <<r>>
    ELSE IF KeyLess(r, Head(s)) THEN <<r>> \o s
    ELSE <<Head(s)>> \o Insert(r, Tail(s))

(* Mutant: sort_values(..., ascending=False). *)
RECURSIVE sort_values_descending(_)
sort_values_descending(df) ==
    IF df = <<>> THEN <<>>
    ELSE LET m == CHOOSE i \in 1 .. Len(df) : \A j \in 1 .. Len(df) : ~KeyLess(df[i], df[j])
         IN  <<df[m]>> \o sort_values_descending(SubSeq(df, 1, m - 1) \o SubSeq(df, m + 1, Len(df)))

RECURSIVE sort_values(_)
sort_values(df) ==
    IF df = <<>> THEN <<>>
    ELSE Insert(df[Len(df)], sort_values(SubSeq(df, 1, Len(df) - 1)))

Returned(df, msg) == [raised |-> FALSE, df |-> df, stdout |-> msg]

(* An exception leaving get_weather_data. *)
KeyError == [raised |-> TRUE, df |-> <<>>, stdout |-> <<>>]

(* pd.read_csv(url): the content the station's URL serves. *)
read_csv(station_id) == feeds[station_id]

(* Mutant: the download error is not caught. *)
get_weather_data_uncaught(station_id) ==
    LET df == read_csv(station_id) IN
    IF ~df.ok THEN KeyError
    ELSE LET df_temp == TempRows(df.rows) IN
    IF df_temp = {} THEN Returned(<<>>, <<>>)
    ELSE IF PivotColumns(df_temp) # {"TMAX", "TMIN"} THEN KeyError
    ELSE LET df_pivot == pivot_table(df_temp)
             df_final == merge(merge(df_pivot, normals_by_day(Normals(df_pivot))),
                               records_by_day(df_pivot))
         IN  Returned(sort_values(df_final), <<>>)

get_weather_data(station_id) ==
    LET df == read_csv(station_id) IN
    IF ~df.ok THEN Returned(<<>>, << <<"Error downloading data for station", station_id>> >>)
    ELSE LET df_temp == TempRows(df.rows) IN
    IF df_temp = {} THEN Returned(<<>>, <<>>)
    ELSE IF PivotColumns(df_temp) # {"TMAX", "TMIN"} THEN KeyError
    ELSE LET df_pivot == pivot_table(df_temp)
             df_final == merge(merge(df_pivot, normals_by_day(Normals(df_pivot))),
                               records_by_day(df_pivot))
         IN  Returned(sort_values(df_final), <<>>)

(***************************************************************************)
(* Strings: sorted() on city names compares code points; str()/int() on    *)
(* years go through decimal digits.                                        *)
(***************************************************************************)
CodePoints(name) ==
    CASE name = "Chicago, IL"     -> <<67, 104, 105, 99, 97, 103, 111, 44, 32, 73, 76>>
      [] name = "New York, NY"    -> <<78, 101, 119, 32, 89, 111, 114, 107, 44, 32, 78, 89>>
      [] name = "Los Angeles, CA" -> <<76, 111, 115, 32, 65, 110, 103, 101, 108, 101, 115, 44, 32, 67, 65>>
      [] name = "Miami, FL"       -> <<77, 105, 97, 109, 105, 44, 32, 70, 76>>
      [] name = "Denver, CO"      -> <<68, 101, 110, 118, 101, 114, 44, 32, 67, 79>>

RECURSIVE LexLess(_, _)
LexLess(a, b) ==
    IF b = <<>> THEN FALSE
    ELSE IF a = <<>> THEN TRUE
    ELSE IF Head(a) # Head(b) THEN Head(a) < Head(b)
    ELSE LexLess(Tail(a), Tail(b))

StrLess(a, b) == LexLess(CodePoints(a), CodePoints(b))

RECURSIVE InsertStr(_, _)
InsertStr(x, s) ==
    IF s = <<>> THEN <<x>>
    ELSE IF StrLess(x, Head(s)) THEN <<x>> \o s
    ELSE <<Head(s)>> \o InsertStr(x, Tail(s))

(* Mutant: sorted(..., reverse=True). *)
RECURSIVE sorted_reverse(_)
sorted_reverse(s) ==
    IF s = <<>> THEN <<>>
    ELSE LET m == CHOOSE i \in 1 .. Len(s) : \A j \in 1 .. Len(s) : ~StrLess(s[i], s[j])
         IN  <<s[m]>> \o sorted_reverse(SubSeq(s, 1, m - 1) \o SubSeq(s, m + 1, Len(s)))

RECURSIVE sorted(_)
sorted(s) ==
    IF s = <<>> THEN <<>>
    ELSE InsertStr(s[Len(s)], sorted(SubSeq(s, 1, Len(s) - 1)))

RECURSIVE SortedInts(_)
SortedInts(S) ==
    IF S = {} THEN <<>>
    ELSE LET m == CHOOSE x \in S : \A y \in S : x <= y
         IN  <<m>> \o SortedInts(S \ {m})

RECURSIVE Str(_)
Str(n) == IF n < 10 THEN <<n>> ELSE Str(n \div 10) \o <<n % 10>>

RECURSIVE ToInt(_)
ToInt(s) == IF s = <<>> THEN 0 ELSE 10 * ToInt(SubSeq(s, 1, Len(s) - 1)) + s[Len(s)]

TitleText(city, year) == <<"Weather Data for ", city, " in ", Str(year)>>

(* df[df['year'] == year] *)
YearSlice(df, year) == SelectSeq(df, LAMBDA r : r.year = year)

(***************************************************************************)
(* Feeds the model draws.                                                  *)
(*  - Spec: every station serves a download error, a feed without          *)
(*    temperatures, a feed with TMAX only, or full daily reports (TMAX and *)
(*    TMIN) for a subset of ReportDates.                                   *)
(*  - SpecPrepare: the first station serves any feed of at most MaxObs     *)
(*    rows over ObsDates, the other stations fail to download.             *)
(***************************************************************************)
ObsYears == {1980, 1981, 2010, 2011}

ObsDates == {Date(y, md[1], md[2]) : y \in ObsYears, md \in {<<1, 1>>, <<3, 1>>}}

ObsValues == {-55, 300}

Precipitation == Obs(Date(1981, 1, 1), "PRCP", 12)

Universe ==
    {Obs(d, el, v) : d \in ObsDates, el \in {"TMAX", "TMIN"}, v \in ObsValues}
        \cup {Precipitation}

RECURSIVE RowSets(_)
RowSets(n) ==
    IF n = 0 THEN {{}}
    ELSE LET P == RowSets(n - 1)
         IN  P \cup {S \in {T \cup {o} : T \in P, o \in Universe} : UniqueKeys(S)}

PrepareFeeds == {Csv(S) : S \in RowSets(MaxObs)}

ReportDates == {Date(1980, 1, 1), Date(1981, 1, 1), Date(1981, 3, 1), Date(2010, 3, 1)}

DayReport(d) ==
    {Obs(d, "TMAX", IF d.year < 2000 THEN 300 ELSE 100), Obs(d, "TMIN", -55)}

ReportFeeds ==
    {Csv(UNION {DayReport(d) : d \in D}) : D \in SUBSET ReportDates}
        \cup {DownloadError, Csv({Precipitation}), Csv({Obs(Date(2000, 1, 1), "TMAX", 100)})}

(***************************************************************************)
(* The program.                                                            *)
(***************************************************************************)
EmptyDict == [c \in {} |-> <<>>]

NoSelect == [options |-> <<>>, value |-> <<>>]

Startup ==
    /\ pc = "fetch"
    /\ all_data = EmptyDict
    /\ requests = [sid \in StationIds |-> 0]
    /\ stdout = <<>>
    /\ valid_cities = EmptyDict
    /\ cities = <<>>
    /\ years = <<>>
    /\ city_select = NoSelect
    /\ year_select = NoSelect
    /\ source = <<>>
    /\ title = <<>>
    /\ roots = <<>>
    /\ callbacks = {}

Init ==
    /\ feeds \in [StationIds -> ReportFeeds]
    /\ Startup

InitPrepare ==
    /\ feeds \in {[sid \in StationIds |-> IF sid = Stations[1][2] THEN f ELSE DownloadError] :
                    f \in PrepareFeeds}
    /\ Startup

Fetched == Cardinality(DOMAIN all_data)

(* One iteration of the comprehension building all_data (line 103); an      *)
(* exception out of get_weather_data ends the script.                       *)
FetchStation ==
    /\ pc = "fetch"
    /\ Fetched < Len(Stations)
    /\ LET city == Stations[Fetched + 1][1]
           station_id == Stations[Fetched + 1][2]
           r == get_weather_data(station_id)
       IN  /\ requests' = [requests EXCEPT ![station_id] = @ + 1]
           /\ IF r.raised
              THEN /\ pc' = "crashed"
                   /\ UNCHANGED <<all_data, stdout>>
              ELSE /\ all_data' = (city :> r.df) @@ all_data
                   /\ stdout' = stdout \o r.stdout
                   /\ pc' = pc
    /\ UNCHANGED <<feeds, valid_cities, cities, years, city_select, year_select,
                   source, title, roots, callbacks>>

(* {city: df for city, df in all_data.items() if not df.empty} *)
ValidCities(data) == [c \in {x \in DOMAIN data : data[x] # <<>>} |-> data[c]]

(* list(d.keys()): insertion order, which is STATION_DATA order. *)
Keys(d) ==
    LET names == [i \in 1 .. Len(Stations) |-> Stations[i][1]]
    IN  SelectSeq(names, LAMBDA c : c \in DOMAIN d)

YearsOf(df) == SortedInts({df[i].year : i \in 1 .. Len(df)})

EmptyColumn == [type |-> "column", children |-> <<>>]

Layout == [type |-> "row", children |-> << <<"city_select", "year_select">>, "p" >>]

(* Mutant: the test for no cities is skipped and cities[0] raises IndexError. *)
SetupEmpty_falls_through ==
    /\ pc = "fetch"
    /\ Fetched = Len(Stations)
    /\ valid_cities' = [c \in {x \in DOMAIN all_data : all_data[x] # <<>>} |-> all_data[c]]
    /\ valid_cities' = EmptyDict
    /\ pc' = "crashed"
    /\ UNCHANGED <<feeds, all_data, requests, stdout, cities, years, city_select,
                   year_select, source, title, roots, callbacks>>

(* Lines 106-112: no station has data. *)
SetupEmpty ==
    /\ pc = "fetch"
    /\ Fetched = Len(Stations)
    /\ valid_cities' = ValidCities(all_data)
    /\ cities' = sorted(Keys(valid_cities'))
    /\ cities' = <<>>
    /\ stdout' = Append(stdout, "Failed to download data for all cities. Please check your network connection.")
    /\ roots' = Append(roots, EmptyColumn)
    /\ pc' = "serving"
    /\ UNCHANGED <<feeds, all_data, requests, years, city_select, year_select,
                   source, title, callbacks>>

(* Lines 106-109 and 113-194: widgets, data source, plot, callbacks, layout. *)
SetupDashboard ==
    /\ pc = "fetch"
    /\ Fetched = Len(Stations)
    /\ valid_cities' = ValidCities(all_data)
    /\ cities' = sorted(Keys(valid_cities'))
    /\ cities' # <<>>
    /\ years' = YearsOf(valid_cities'[cities'[1]])
    /\ city_select' = [options |-> cities', value |-> cities'[1]]
    /\ year_select' = [options |-> [i \in 1 .. Len(years') |-> Str(years'[i])],
                       value   |-> Str(years'[Len(years')])]
    /\ LET initial_city == cities'[1]
           initial_year == ToInt(year_select'.value)
       IN  /\ source' = YearSlice(valid_cities'[initial_city], initial_year)
           /\ title' = TitleText(initial_city, initial_year)
    /\ callbacks' = {"city_select", "year_select"}
    /\ roots' = Append(roots, Layout)
    /\ pc' = "serving"
    /\ UNCHANGED <<feeds, all_data, requests, stdout>>

(* Mutant: a selection without rows is rejected and the previous view kept. *)
update_plot_keep_previous(attrname, old, new) ==
    LET selected_city == city_select'.value
        selected_year == ToInt(year_select'.value)
        new_data == YearSlice(valid_cities[selected_city], selected_year)
    IN  /\ source' = IF new_data = <<>> THEN source ELSE new_data
        /\ title' = IF new_data = <<>> THEN title ELSE TitleText(selected_city, selected_year)
        /\ UNCHANGED <<feeds, pc, all_data, requests, stdout, valid_cities, cities,
                       years, roots, callbacks>>

(* Mutant: the callback downloads the selected station again. *)
update_plot_refetch(attrname, old, new) ==
    LET selected_city == city_select'.value
        selected_year == ToInt(year_select'.value)
        r == get_weather_data(StationId(selected_city))
    IN  /\ requests' = [requests EXCEPT ![StationId(selected_city)] = @ + 1]
        /\ all_data' = [all_data EXCEPT ![selected_city] = r.df]
        /\ source' = YearSlice(r.df, selected_year)
        /\ title' = TitleText(selected_city, selected_year)
        /\ UNCHANGED <<feeds, pc, stdout, valid_cities, cities, years, roots, callbacks>>

(* update_plot, run after the widget's value has been set. *)
update_plot(attrname, old, new) ==
    LET selected_city == city_select'.value
        selected_year == ToInt(year_select'.value)
        new_data == YearSlice(valid_cities[selected_city], selected_year)
    IN  /\ source' = new_data
        /\ title' = TitleText(selected_city, selected_year)
        /\ UNCHANGED <<feeds, pc, all_data, requests, stdout, valid_cities, cities,
                       years, roots, callbacks>>

(* The user picks another option of a Select: the value is set and the     *)
(* 'value' callbacks run.                                                  *)
ChangeCity(new) ==
    /\ pc = "serving"
    /\ "city_select" \in callbacks
    /\ \E i \in 1 .. Len(city_select.options) : city_select.options[i] = new
    /\ new # city_select.value
    /\ city_select' = [city_select EXCEPT !.value = new]
    /\ year_select' = year_select
    /\ update_plot("value", city_select.value, new)

ChangeYear(new) ==
    /\ pc = "serving"
    /\ "year_select" \in callbacks
    /\ \E i \in 1 .. Len(year_select.options) : year_select.options[i] = new
    /\ new # year_select.value
    /\ year_select' = [year_select EXCEPT !.value = new]
    /\ city_select' = city_select
    /\ update_plot("value", year_select.value, new)

YearStrings == {Str(y) : y \in 1980 .. 2011}

Next ==
    \/ FetchStation
    \/ SetupEmpty
    \/ SetupDashboard
    \/ \E c \in Cities : ChangeCity(c)
    \/ \E y \in YearStrings : ChangeYear(y)

Spec == Init /\ [][Next]_vars

(* get_weather_data alone, on every feed of PrepareFeeds. *)
SpecPrepare == InitPrepare /\ [][FetchStation]_vars

(***************************************************************************)
(* Properties.  What a claim says about the input is read off the feed     *)
(* itself, not off the intermediate tables of get_weather_data.            *)
(***************************************************************************)
Rows(df) == {df[i] : i \in 1 .. Len(df)}

FeedOf(city) == feeds[StationId(city)]

(* The temperature observations of a city's feed. *)
Temps(city) == {o \in FeedOf(city).rows : o.ELEMENT \in {"TMAX", "TMIN"}}

Kinds(city) == {o.ELEMENT : o \in Temps(city)}

(* A station that is unavailable: failed download, or no TMAX/TMIN rows. *)
Unavailable(city) == ~FeedOf(city).ok \/ Temps(city) = {}

Requested(city) == requests[StationId(city)] > 0

Observed(city, el, d) == {o \in Temps(city) : o.ELEMENT = el /\ DayOfYear(o.DATE) = d}

InWindow(S) == {o \in S : o.DATE.year >= 1981 /\ o.DATE.year <= 2010}

RECURSIVE TotalTenths(_)
TotalTenths(S) ==
    IF S = {} THEN 0
    ELSE LET o == CHOOSE x \in S : TRUE IN o.DATA_VALUE + TotalTenths(S \ {o})

SameNumber(x, num, den) == ~IsNaN(x) /\ x[1] * den = num * x[2]

(* x is the arithmetic mean, in degrees, of the observations S (absent if none). *)
IsMeanOf(x, S) ==
    IF S = {} THEN IsNaN(x) ELSE SameNumber(x, TotalTenths(S), 10 * Cardinality(S))

(* x is the largest (smallest) value, in degrees, among S (absent if none). *)
IsMaxOf(x, S) ==
    IF S = {} THEN IsNaN(x)
    ELSE \E o \in S : /\ SameNumber(x, o.DATA_VALUE, 10)
                      /\ \A q \in S : q.DATA_VALUE <= o.DATA_VALUE

IsMinOf(x, S) ==
    IF S = {} THEN IsNaN(x)
    ELSE \E o \in S : /\ SameNumber(x, o.DATA_VALUE, 10)
                      /\ \A q \in S : q.DATA_VALUE >= o.DATA_VALUE

(* The view's current selection. *)
Selection == <<city_select.value, year_select.value>>

SelectionEvent == pc = "serving" /\ Selection' # Selection

(***************************************************************************)
(* C2: every (year, day_of_year) of the reshaped table is returned exactly *)
(* once, rows whose day has nothing in 1981-2010 included, with avg_max    *)
(* and avg_min absent on those rows.                                       *)
(***************************************************************************)
C2_EveryKeyReturnedOnce ==
    \A c \in DOMAIN all_data :
        \A o \in Temps(c) :
            LET hits == {i \in 1 .. Len(all_data[c]) :
                            /\ all_data[c][i].year = o.DATE.year
                            /\ all_data[c][i].day_of_year = DayOfYear(o.DATE)}
            IN  /\ Cardinality(hits) = 1
                /\ \A i \in hits :
                      InWindow({q \in Temps(c) : DayOfYear(q.DATE) = DayOfYear(o.DATE)}) = {}
                          => IsNaN(all_data[c][i].avg_max) /\ IsNaN(all_data[c][i].avg_min)

(***************************************************************************)
(* C3: on every returned row record_max is the largest TMAX and record_min *)
(* the smallest TMIN the feed holds for the row's day_of_year, over all    *)
(* years; so every year's row of a day carries the same records.           *)
(***************************************************************************)
C3_RecordsOverAllYears ==
    \A c \in DOMAIN all_data :
        \A r \in Rows(all_data[c]) :
            /\ IsMaxOf(r.record_max, Observed(c, "TMAX", r.day_of_year))
            /\ IsMinOf(r.record_min, Observed(c, "TMIN", r.day_of_year))

(* A table holding a row whose record_max was set in another year, outside 1981-2010. *)
C3_Witness ==
    \E c \in DOMAIN all_data :
        \E r \in Rows(all_data[c]) :
            /\ ~IsNaN(r.TMAX) /\ ~IsNaN(r.record_max) /\ r.record_max # r.TMAX
            /\ \E o \in Observed(c, "TMAX", r.day_of_year) :
                  /\ InWindow({o}) = {}
                  /\ SameNumber(r.record_max, o.DATA_VALUE, 10)

(***************************************************************************)
(* C4: on every returned row avg_max is the arithmetic mean of the TMAX    *)
(* values the feed holds for the row's day_of_year in the years 1981..2010 *)
(* (both ends included, no other year), and avg_min likewise for TMIN.     *)
(***************************************************************************)
C4_NormalsOverWindow ==
    \A c \in DOMAIN all_data :
        \A r \in Rows(all_data[c]) :
            /\ IsMeanOf(r.avg_max, InWindow(Observed(c, "TMAX", r.day_of_year)))
            /\ IsMeanOf(r.avg_min, InWindow(Observed(c, "TMIN", r.day_of_year)))

(* A day whose normal is the mean of the 1981 and the 2010 value, which differ. *)
C4_Witness ==
    \E c \in DOMAIN all_data :
        \E r \in Rows(all_data[c]) :
            LET S == InWindow(Observed(c, "TMAX", r.day_of_year))
            IN  /\ {o.DATE.year : o \in S} = {1981, 2010}
                /\ Cardinality({o.DATA_VALUE : o \in S}) = 2
                /\ ~IsNaN(r.avg_max)

(* A row of 1980 or 2011 that carries a normal its own value has no part in. *)
C4_WitnessOutside ==
    \E c \in DOMAIN all_data :
        \E r \in Rows(all_data[c]) :
            /\ r.year \in {1980, 2011}
            /\ ~IsNaN(r.TMAX) /\ ~IsNaN(r.avg_max) /\ r.avg_max # r.TMAX

(***************************************************************************)
(* C5: a station whose feed holds one kind only (TMAX only, or TMIN only)  *)
(* is prepared without error: a row per observed (year, day_of_year), the  *)
(* observed kind at a tenth of the stored value, the other kind absent.    *)
(***************************************************************************)
C5_SingleKindPrepared ==
    \A i \in 1 .. Len(Stations) :
        LET c == Stations[i][1]
        IN  (Requested(c) /\ FeedOf(c).ok /\ Cardinality(Kinds(c)) = 1) =>
                /\ pc # "crashed"
                /\ c \in DOMAIN all_data
                /\ \A o \in Temps(c) :
                      \E r \in Rows(all_data[c]) :
                          /\ r.year = o.DATE.year
                          /\ r.day_of_year = DayOfYear(o.DATE)
                          /\ SameNumber(r[o.ELEMENT], o.DATA_VALUE, 10)
                          /\ IsNaN(r[IF o.ELEMENT = "TMAX" THEN "TMIN" ELSE "TMAX"])

(***************************************************************************)
(* C1 as stated: a selection whose year has no rows in the selected city's *)
(* table (or whose city is not a prepared station) leaves the dataset and  *)
(* the title as they were.                                                 *)
(***************************************************************************)
NoRowsSelected ==
    \/ city_select'.value \notin DOMAIN valid_cities
    \/ \A r \in Rows(valid_cities[city_select'.value]) :
          Str(r.year) # year_select'.value

C1_InvalidSelectionNoOp ==
    [][(SelectionEvent /\ NoRowsSelected) => (source' = source /\ title' = title)]_vars

(***************************************************************************)
(* C1 as amended: the controls offer prepared stations only, so the city   *)
(* selected is always one of them; a selection whose year has no rows in   *)
(* that city's table does not crash, it empties the dataset and sets the   *)
(* title to the new city and year.                                         *)
(***************************************************************************)
C1_EmptySliceShown ==
    /\ [](pc = "serving" /\ callbacks # {} => city_select.value \in DOMAIN valid_cities)
    /\ [][(SelectionEvent /\ NoRowsSelected) =>
            /\ pc' = "serving"
            /\ source' = <<>>
            /\ title' = <<"Weather Data for ", city_select'.value, " in ", year_select'.value>>
            /\ title' # title]_vars

(* The view after a selection of a year the selected city has no rows for. *)
C1_Witness ==
    /\ pc = "serving"
    /\ callbacks # {}
    /\ \A r \in Rows(valid_cities[city_select.value]) : Str(r.year) # year_select.value
    /\ source = <<>>
    /\ title = <<"Weather Data for ", city_select.value, " in ", year_select.value>>

(***************************************************************************)
(* C6: a station whose download fails or whose feed has no TMAX/TMIN rows  *)
(* is prepared to an empty table without ending the script, the stations   *)
(* after it are still requested, and once the view is up the selectable    *)
(* cities are exactly the stations whose table is not empty.               *)
(***************************************************************************)
C6_FailuresIsolated ==
    /\ \A c \in Cities :
          (Requested(c) /\ Unavailable(c)) => (c \in DOMAIN all_data /\ all_data[c] = <<>>)
    /\ pc = "serving" =>
          /\ DOMAIN all_data = Cities
          /\ \A c \in Cities : Requested(c)
          /\ {cities[i] : i \in 1 .. Len(cities)} = {c \in Cities : all_data[c] # <<>>}
          /\ Len(cities) = Cardinality({c \in Cities : all_data[c] # <<>>})
          /\ callbacks # {} => city_select.options = cities
          /\ \A c \in Cities : Unavailable(c) =>
                \A i \in 1 .. Len(city_select.options) : city_select.options[i] # c

(* The view is up with a city to select although an earlier station was unavailable. *)
C6_Witness ==
    /\ pc = "serving"
    /\ Unavailable(Stations[1][1])
    /\ cities = <<Stations[2][1]>>
    /\ city_select.options = cities

(***************************************************************************)
(* C7: whenever the view is up, and so after every selection, the dataset  *)
(* is exactly the rows of the selected city's table whose year is the      *)
(* selected year, in strictly ascending day_of_year (hence no day twice),  *)
(* days within 1..366, at most 366 rows.                                   *)
(***************************************************************************)
C7_DatasetIsYearSlice ==
    (pc = "serving" /\ callbacks # {}) =>
        LET df == valid_cities[city_select.value]
        IN  /\ Rows(source) = {r \in Rows(df) : Str(r.year) = year_select.value}
            /\ \A i, j \in 1 .. Len(source) :
                  i < j => source[i].day_of_year < source[j].day_of_year
            /\ \A i \in 1 .. Len(source) : source[i].day_of_year \in 1 .. 366
            /\ Len(source) <= 366

(* After a change of city the dataset holds two days of the selected year. *)
C7_Witness ==
    /\ pc = "serving"
    /\ callbacks # {}
    /\ city_select.value # cities[1]
    /\ Len(source) >= 2
    /\ Cardinality(DOMAIN valid_cities) >= 2

(***************************************************************************)
(* C8: when some station has data, the view starts on the alphabetically   *)
(* first city among the stations with data and on the latest year of that  *)
(* city's table, showing that (city, year)'s rows and title.               *)
(***************************************************************************)
Alphabet == <<"Chicago, IL", "Denver, CO", "Los Angeles, CA", "Miami, FL", "New York, NY">>

Rank(city) == CHOOSE i \in 1 .. Len(Alphabet) : Alphabet[i] = city

WithData == {c \in DOMAIN all_data : all_data[c] # <<>>}

FirstByName == CHOOSE c \in WithData : \A d \in WithData : Rank(c) <= Rank(d)

LatestYear(df) == CHOOSE y \in {r.year : r \in Rows(df)} : \A r \in Rows(df) : r.year <= y

C8_Initial ==
    [][(pc = "fetch" /\ pc' = "serving" /\ WithData # {}) =>
          /\ city_select'.value = FirstByName
          /\ year_select'.value = Str(LatestYear(all_data[FirstByName]))
          /\ Rows(source') = {r \in Rows(all_data[FirstByName]) :
                                 r.year = LatestYear(all_data[FirstByName])}
          /\ Len(source') = Cardinality(Rows(source'))
          /\ title' = <<"Weather Data for ", FirstByName, " in ",
                        Str(LatestYear(all_data[FirstByName]))>>]_vars

(* The view as it starts: both stations have data, the first city's table spans two years. *)
C8_Witness ==
    /\ pc = "serving"
    /\ Cardinality(DOMAIN valid_cities) >= 2
    /\ Len(years) >= 2
    /\ Selection = <<cities[1], Str(years[Len(years)])>>
    /\ title = <<"Weather Data for ", Alphabet[1], " in ", <<2, 0, 1, 0>> >>

(***************************************************************************)
(* C9: when every station's table is empty, start-up does not crash and    *)
(* the document holds one empty column: no city control, no year control,  *)
(* no chart data or title, no callback registered.                         *)
(***************************************************************************)
C9_EmptyLayout ==
    (DOMAIN all_data = Cities /\ \A c \in Cities : all_data[c] = <<>>) =>
        /\ pc # "crashed"
        /\ pc = "serving" =>
              /\ roots = << [type |-> "column", children |-> <<>>] >>
              /\ city_select = [options |-> <<>>, value |-> <<>>]
              /\ year_select = [options |-> <<>>, value |-> <<>>]
              /\ source = <<>>
              /\ title = <<>>
              /\ callbacks = {}

(* The empty view: one station failed to download, another had a feed without rows for the table. *)
C9_Witness ==
    /\ pc = "serving"
    /\ \A c \in Cities : all_data[c] = <<>>
    /\ \E c \in Cities : ~FeedOf(c).ok
    /\ \E c \in Cities : FeedOf(c).ok
    /\ Len(roots) = 1

(***************************************************************************)
(* C10: every station is downloaded and prepared once, in STATION_DATA     *)
(* order, before the view is up; no selection event changes the cache or   *)
(* downloads anything.                                                     *)
(***************************************************************************)
C10_CacheFrozen ==
    /\ [](/\ \A c \in Cities : requests[StationId(c)] <= 1
          /\ \A i \in 1 .. Len(Stations) - 1 :
                Requested(Stations[i + 1][1]) => Requested(Stations[i][1])
          /\ pc = "serving" => \A c \in Cities : requests[StationId(c)] = 1
          /\ pc # "serving" => callbacks = {})
    /\ [][pc = "serving" =>
            /\ all_data' = all_data
            /\ valid_cities' = valid_cities
            /\ requests' = requests
            /\ feeds' = feeds]_vars

(* The view after a change of city and of year. *)
C10_Witness ==
    /\ pc = "serving"
    /\ callbacks # {}
    /\ city_select.value # cities[1]
    /\ year_select.value # Str(years[Len(years)])
    /\ \A c \in Cities : requests[StationId(c)] = 1

=============================================================================
